---- MODULE Spec2Model ----
(***************************************************************************)
(* Token / balance settlement of the water-pulsa backend.                  *)
(*                                                                         *)
(* The database tables (devices, tokens, balances, usage_logs) are the     *)
(* state.  Every request is run by a process; each awaited Prisma call is  *)
(* one step, so requests interleave at the awaits exactly as they do in    *)
(* the Node event loop.  The service-layer operations run inside           *)
(* prisma.$transaction on MySQL/InnoDB (prisma/schema.prisma, datasource   *)
(* db) without an isolationLevel option, i.e. REPEATABLE READ: plain reads *)
(* are non-locking reads of the snapshot taken at the transaction's first  *)
(* read, writes take row locks held until commit, and an exception rolls   *)
(* every write back.  The tables below hold the COMMITTED rows.  A          *)
(* transaction is two steps: its first read (which fixes the snapshot) and *)
(* its writes with the commit.  Taking a row lock commutes to the right of *)
(* every step of another request (it only delays the others' writes to     *)
(* that row until the commit), so the lock, the later writes and the       *)
(* commit are one step at the commit point; aborted transactions leave no  *)
(* trace.                                                                  *)
(* The IoT controller handlers use the shared client without a             *)
(* transaction: each statement commits on its own.                         *)
(***************************************************************************)
EXTENDS Integers, Sequences, FiniteSets, Bags, TLC

(* ---- bounds ---- *)
NumProcs == 2      \* concurrent requests in flight
MaxTokens == 2     \* tokens issued
MaxRequests == 2   \* requests that get past their first read
NumHandlers == 2   \* MQTT messages being handled at once
MaxMessages == 3   \* MQTT messages received
MaxConnects == 1   \* reconnections of the MQTT client
MaxClients == 3    \* MQTT clients created by connect()
MaxEvents == 6     \* connection closes and reconnect requests
NumAdmins == 2     \* concurrent device-administration requests in flight
MaxAdminRequests == 2  \* device-administration requests that get past their first read
MaxAdjustments == 2    \* operator balance updates that get past their first read

(* ---- inputs ---- *)
Procs == 1..NumProcs
TokenIds == 1..MaxTokens
DeviceIds == {"D1", "D2", "D3"}       \* D3 is the id of no device at the start
RequestKeys == {"K1", "K2", "KX"}       \* KX is the key of no device
TokenAmounts == {-5, 0, 50}
UsageAmounts == {0, 20, 1000}

\* usageAmount as the request body carries it: a JSON number, absent, or a
\* string that is no number (such as "abc")
Number(n) == [type |-> "number", value |-> n]
Undefined == [type |-> "undefined", value |-> 0]
NonNumeric == [type |-> "string", value |-> 0]
UsageBodies == {Number(n) : n \in UsageAmounts} \cup {Undefined, NonNumeric}

\* the users table (no request considered here changes it)
UserIds == {"U1", "U2", "U3"}

TokenString(tid) == "T" \o ToString(tid)
RequestTokens == {TokenString(tid) : tid \in TokenIds}

(* ---- constants of the program ---- *)
TOKEN_STATUS == [USED |-> "used", UNUSED |-> "unused"]
STATUS_CODES == [SUCCESS |-> 200, CREATED |-> 201, BAD_REQUEST |-> 400,
                 FORBIDDEN |-> 403, NOT_FOUND |-> 404, CONFLICT |-> 409,
                 INTERNAL_ERROR |-> 500]
ROLES == [ADMIN |-> "ADMIN", STAFF |-> "STAFF", USER |-> "USER"]

\* users.role of the three users
RoleOf(userId) ==
    CASE userId = "U1" -> ROLES.ADMIN
      [] userId = "U2" -> ROLES.STAFF
      [] OTHER         -> ROLES.USER

NoRow == [exists |-> FALSE]

VARIABLES
    devices,     \* table devices:  id -> row | NoDeviceRow
    tokens,      \* table tokens:   id -> row | NoRow   (committed)
    balances,    \* table balances: deviceId -> row | NoRow   (committed, deviceId @unique)
    usageLogs,   \* table usage_logs: bag of [deviceId, usageAmount]
    proc,        \* the requests in flight: position and locals of each
    response,    \* the response sent by the last step, NoResponse when it sent none
    redeemed,    \* history: tid -> number of successful redemptions of the token
    debited,     \* history: deviceId -> sum of the usage amounts accepted (valid: true)
    iotUsed,     \* history: some request went through deviceIoTController
    requests,    \* history: number of requests that got past their first read
    scn,         \* history: how far the run so far has followed the section 8 scenario
    isConnected, \* mqttService.isConnected
    retryCount,  \* mqttService.retryCount
    handlers,    \* the handleMessage calls in flight: position and message of each
    published,   \* the messages handed to client.publish, in order
    errorLog,    \* number of logger.error calls of the MQTT service
    received,    \* history: number of MQTT messages received
    connects,    \* history: number of reconnections
    rejected,    \* number of handleMessage promises that were rejected
    clients,     \* the clients made by mqtt.connect, in order of creation: state of each
    timers,      \* pending setTimeout callbacks of handleReconnection
    adminTimers, \* pending setTimeout callbacks of reconnectMQTT
    subscribing, \* the topics handed to client.subscribe and not yet answered, in order
    subscribers, \* mqttService.subscribers: its keys
    stopped,     \* history: disconnect() ended the connection and no caller asked for a new one
    events,      \* history: number of connection closes and reconnect requests
    admin,       \* the device-administration requests in flight
    adminRequests, \* history: number of such requests that got past their first read
    adjusted,    \* history: deviceId -> sum of the operator amounts applied
    adjustments  \* history: number of operator updates that got past their first read

connVars == <<clients, timers, adminTimers, subscribing, subscribers,
              stopped, events>>

mqttVars == <<isConnected, retryCount, handlers, published, errorLog,
              received, connects, rejected, connVars>>

adminVars == <<admin, adminRequests, adjusted, adjustments>>

vars == <<devices, tokens, balances, usageLogs, proc, response,
          redeemed, debited, iotUsed, requests, scn, mqttVars, adminVars>>

(* ---- rows and lookups ---- *)

Idle == [pc |-> "idle", key |-> "", tok |-> "", amt |-> 0,
         dev |-> "", bal |-> NoRow, tid |-> 0]

NoDevice == "none"

\* the slot of a device id that has no row
NoDeviceRow == [exists |-> FALSE, deviceKey |-> "", status |-> FALSE, userId |-> ""]

DeviceRow(deviceKey, status, userId) ==
    [exists |-> TRUE, deviceKey |-> deviceKey, status |-> status, userId |-> userId]

\* the lookup returning a device whatever the key
FindDeviceByKey_AnyDevice(deviceKey) ==
    CHOOSE d \in DeviceIds : devices[d].exists /\ devices[d].status

\* prisma.device.findFirst({ where: { deviceKey } })
FindDeviceByKey(deviceKey) ==
    IF \E d \in DeviceIds : devices[d].exists /\ devices[d].deviceKey = deviceKey
    THEN CHOOSE d \in DeviceIds : devices[d].exists /\ devices[d].deviceKey = deviceKey
    ELSE NoDevice

\* tx.token.findUnique({ where: { token: tokenValue } }); 0 when there is no such row
FindTokenByValue(tokenValue) ==
    IF \E tid \in TokenIds : tokens[tid].exists /\ tokens[tid].token = tokenValue
    THEN CHOOSE tid \in TokenIds : tokens[tid].exists /\ tokens[tid].token = tokenValue
    ELSE 0

\* prisma.token.findFirst({ where: { token, status: 'unused' } })
FindUnusedToken(tokenValue) ==
    IF \E tid \in TokenIds : /\ tokens[tid].exists
                             /\ tokens[tid].token = tokenValue
                             /\ tokens[tid].status = "unused"
    THEN CHOOSE tid \in TokenIds : /\ tokens[tid].exists
                                   /\ tokens[tid].token = tokenValue
                                   /\ tokens[tid].status = "unused"
    ELSE 0

\* createToken persisting the status of a redeemed token
NewTokenRow_Used(deviceId, tokenValue, amount) ==
    [exists |-> TRUE, deviceId |-> deviceId, token |-> tokenValue,
     amount |-> amount, status |-> TOKEN_STATUS.USED, used_at |-> "null"]

NewTokenRow(deviceId, tokenValue, amount) ==
    [exists |-> TRUE, deviceId |-> deviceId, token |-> tokenValue,
     amount |-> amount, status |-> TOKEN_STATUS.UNUSED, used_at |-> "null"]

UsedTokenRow(token) ==
    [token EXCEPT !.status = TOKEN_STATUS.USED, !.used_at = "set"]

BalanceRow(balance, lastToken) ==
    [exists |-> TRUE, balance |-> balance, lastToken |-> lastToken]

UsageLogRow(deviceId, usageAmount) ==
    [deviceId |-> deviceId, usageAmount |-> usageAmount]

\* the credit overwriting the balance with the token amount
CreditedBalance_Overwrite(balance, amount) == amount

CreditedBalance(balance, amount) == balance + amount

\* the usage update writing back the balance it read
DebitedBalance_NoDebit(balance, usageAmount) == balance

DebitedBalance(balance, usageAmount) == balance - usageAmount

ClampedBalance(balance, usageAmount) ==
    IF balance - usageAmount > 0 THEN balance - usageAmount ELSE 0

\* the balance a device reads as: 0 while it has no Balance row
BalanceIn(table, d) == IF table[d].exists THEN table[d].balance ELSE 0

BalanceOf(d) == BalanceIn(balances, d)

(* ---- responses ---- *)

ErrorCode(result) ==
    CASE result = "DeviceNotFound" -> STATUS_CODES.NOT_FOUND
      [] result = "DeviceInactive" -> STATUS_CODES.FORBIDDEN
      [] result = "ServerError"    -> STATUS_CODES.INTERNAL_ERROR
      [] result = "KeyConflict"    -> STATUS_CODES.CONFLICT
      [] OTHER                     -> STATUS_CODES.BAD_REQUEST

Failure(op, result) ==
    [op |-> op, result |-> result, code |-> ErrorCode(result),
     balance |-> 0, amount |-> 0, canUse |-> FALSE, lastToken |-> ""]

Success(op, balance, amount, canUse) ==
    [op |-> op, result |-> "ok", code |-> STATUS_CODES.SUCCESS,
     balance |-> balance, amount |-> amount, canUse |-> canUse, lastToken |-> ""]

\* usageController: error(res, 400, result.error, { remainingBalance })
Insufficient(op, remainingBalance) ==
    [op |-> op, result |-> "InsufficientBalance", code |-> STATUS_CODES.BAD_REQUEST,
     balance |-> remainingBalance, amount |-> 0, canUse |-> FALSE, lastToken |-> ""]

\* checkDeviceBalance: { valid: true, balance, lastToken }
BalanceInfo(op, balance, lastToken) ==
    [op |-> op, result |-> "ok", code |-> STATUS_CODES.SUCCESS,
     balance |-> balance, amount |-> 0, canUse |-> FALSE, lastToken |-> lastToken]

NoResponse ==
    [op |-> "", result |-> "none", code |-> 0,
     balance |-> 0, amount |-> 0, canUse |-> FALSE, lastToken |-> ""]

(* ---- scheduling ---- *)

Quiescent == \A p \in Procs : proc[p].pc = "idle"

\* a new request takes the first free slot (the slots are interchangeable)
CanStart(p) ==
    /\ proc[p].pc = "idle"
    /\ \A q \in Procs : q < p => proc[q].pc # "idle"


(* ---- the scenario of section 8, followed step by step ---- *)

ScnOff == -1

ScnExpected(stage) ==
    CASE stage = 1 -> [op |-> "validateToken", key |-> "K1", tok |-> "T1", amt |-> 0]
      [] stage = 2 -> [op |-> "validateToken", key |-> "K1", tok |-> "T1", amt |-> 0]
      [] stage = 3 -> [op |-> "logDeviceUsage", key |-> "K1", tok |-> "", amt |-> 20]
      [] stage = 4 -> [op |-> "logDeviceUsage", key |-> "K1", tok |-> "", amt |-> 1000]
      [] OTHER -> [op |-> "", key |-> "", tok |-> "", amt |-> 0]

ScnOnIssue(deviceId, amount) ==
    IF scn = 0 /\ deviceId = "D1" /\ amount = 50 THEN 1 ELSE ScnOff

ScnOnStart(req, completes) ==
    IF scn \in 1..4 /\ Quiescent /\ req = ScnExpected(scn)
    THEN (IF completes THEN scn + 1 ELSE scn)
    ELSE ScnOff

ScnOnStep(completes) ==
    IF scn \in 1..4 THEN (IF completes THEN scn + 1 ELSE scn) ELSE ScnOff

IdleAdmin == [pc |-> "idle", dev |-> "", key |-> "",
              status |-> "undefined", owner |-> ""]

Request(op, key, tok, amt) == [op |-> op, key |-> key, tok |-> tok, amt |-> amt]

\* the clients that connect() can make, in order of creation
ClientIds == 1..MaxClients

\* subscribeToDeviceTopics: the topic filters the service subscribes to
DeviceTopics ==
    << <<"water-meter", "+", "auth", "request">>,
       <<"water-meter", "+", "balance", "check", "request">>,
       <<"water-meter", "+", "usage", "log", "request">>,
       <<"water-meter", "+", "token", "validate", "request">>,
       <<"water-meter", "+", "heartbeat">> >>

(* ---- initial state ---- *)

Init ==
    /\ devices = [d \in DeviceIds |->
                    CASE d = "D1" -> DeviceRow("K1", TRUE, "U2")
                      [] d = "D2" -> DeviceRow("K2", FALSE, "U3")
                      [] OTHER    -> NoDeviceRow]
    /\ tokens = [tid \in TokenIds |-> NoRow]
    /\ \E row1 \in {NoRow, BalanceRow(0, "")} :
         balances = [d \in DeviceIds |->
                       CASE d = "D1" -> row1
                         [] d = "D2" -> BalanceRow(0, "")
                         [] OTHER    -> NoRow]
    /\ usageLogs = EmptyBag
    /\ proc = [p \in Procs |-> Idle]
    /\ response = NoResponse
    /\ redeemed = [tid \in TokenIds |-> 0]
    /\ debited = [d \in DeviceIds |-> 0]
    /\ iotUsed = FALSE
    /\ requests = 0
    /\ scn = 0
    /\ isConnected = TRUE
    /\ retryCount = 0
    /\ connects = 0
    /\ handlers = [h \in 1..NumHandlers |-> [pc |-> "idle", topic |-> <<>>]]
    /\ published = <<>>
    /\ errorLog = 0
    /\ received = 0
    /\ rejected = 0
    /\ clients = [c \in ClientIds |-> IF c = 1 THEN "connected" ELSE "none"]
    /\ timers = 0
    /\ adminTimers = 0
    /\ subscribing = DeviceTopics
    /\ subscribers = {}
    /\ stopped = FALSE
    /\ events = 0
    /\ admin = [a \in 1..NumAdmins |-> IdleAdmin]
    /\ adminRequests = 0
    /\ adjusted = [d \in DeviceIds |-> 0]
    /\ adjustments = 0


(* ---- utils/authorization ---- *)

isAdmin(userRole) == userRole = ROLES.ADMIN

\* the ownership check letting every caller through
verifyOwnership_Anyone(resource, userId, userRole) == resource.exists

\* verifyOwnership(resource, userId, userRole, null): false without a
\* resource, true for an admin, else resource.userId === userId
verifyOwnership(resource, userId, userRole) ==
    IF ~resource.exists THEN FALSE
    ELSE IF isAdmin(userRole) THEN TRUE
    ELSE resource.userId = userId

(* ---- tokenService.createToken ---- *)

\* the amount rule accepting zero
createTokenRule_MinZero(amount) == amount * 100 >= 0

\* rules.createToken: body('amount').isFloat({ min: 0.01 }), amounts in whole units
createTokenRule(amount) == amount * 100 >= 1

\* validate(rules.createToken), then the controller and the service:
\* prisma.device.findUnique, enforceOwnership, prisma.token.create
createToken(userId, userRole, deviceId, amount) ==
    /\ IF ~createTokenRule(amount)
       THEN /\ response' = Failure("createToken", "ValidationFailed")
            /\ UNCHANGED tokens
       ELSE IF ~verifyOwnership(devices[deviceId], userId, userRole)
       THEN /\ response' = Failure("createToken", "DeviceNotFound")
            /\ UNCHANGED tokens
       ELSE /\ \E tid \in TokenIds :
                 /\ ~tokens[tid].exists
                 /\ \A u \in TokenIds : u < tid => tokens[u].exists
                 /\ tokens' = [tokens EXCEPT ![tid] =
                                  NewTokenRow(deviceId, TokenString(tid), amount)]
            /\ response' = NoResponse
    /\ scn' = ScnOnIssue(deviceId, amount)
    /\ UNCHANGED <<devices, requests, balances, usageLogs, proc,
                   redeemed, debited, iotUsed>>
    /\ UNCHANGED <<mqttVars, adminVars>>

(* ---- tokenService.validateToken (inside prisma.$transaction) ---- *)

\* validateToken without the device-key check
ValidateTokenError_NoKeyCheck(token, deviceKey) ==
    IF ~token.exists THEN "InvalidToken"
    ELSE IF token.status = TOKEN_STATUS.USED THEN "TokenAlreadyUsed"
    ELSE IF ~devices[token.deviceId].status THEN "DeviceInactive"
    ELSE "ok"

\* validateToken without the device-status check
ValidateTokenError_NoStatusCheck(token, deviceKey) ==
    IF ~token.exists THEN "InvalidToken"
    ELSE IF token.status = TOKEN_STATUS.USED THEN "TokenAlreadyUsed"
    ELSE IF devices[token.deviceId].deviceKey # deviceKey THEN "DeviceMismatch"
    ELSE "ok"

\* the checks between the token read and the first write; "ok" when none throws
ValidateTokenError(token, deviceKey) ==
    IF ~token.exists THEN "InvalidToken"
    ELSE IF token.status = TOKEN_STATUS.USED THEN "TokenAlreadyUsed"
    ELSE IF devices[token.deviceId].deviceKey # deviceKey THEN "DeviceMismatch"
    ELSE IF ~devices[token.deviceId].status THEN "DeviceInactive"
    ELSE "ok"

\* tx.token.findUnique and the checks.  The read fixes the transaction's
\* snapshot, so the Balance row that tx.balance.findUnique returns later is
\* the row as committed now.
validateToken(p, tokenValue, deviceKey) ==
    /\ CanStart(p)
    /\ LET tid == FindTokenByValue(tokenValue)
           token == IF tid = 0 THEN NoRow ELSE tokens[tid]
           err == ValidateTokenError(token, deviceKey)
           req == Request("validateToken", deviceKey, tokenValue, 0)
       IN  IF err # "ok"
           THEN /\ response' = Failure("validateToken", err)
                /\ scn' = ScnOnStart(req, TRUE)
                /\ UNCHANGED <<proc, requests>>
           ELSE /\ requests < MaxRequests
                /\ requests' = requests + 1
                /\ proc' = [proc EXCEPT ![p] =
                              [pc |-> "vt_updateBalance", key |-> deviceKey,
                               tok |-> tokenValue, amt |-> 0,
                               dev |-> token.deviceId,
                               bal |-> balances[token.deviceId], tid |-> tid]]
                /\ scn' = ScnOnStart(req, FALSE)
                /\ response' = NoResponse
    /\ UNCHANGED <<devices, tokens, balances, usageLogs,
                   redeemed, debited, iotUsed>>
    /\ UNCHANGED <<mqttVars, adminVars>>

\* tx.token.update, tx.balance.findUnique (snapshot), tx.balance.create /
\* update, return, commit.
\* A create that meets a committed row violates deviceId @unique: the
\* exception rolls the token update back.
validateToken_updateBalance(p) ==
    /\ proc[p].pc = "vt_updateBalance"
    /\ LET me == proc[p]
           amount == tokens[me.tid].amount
           newBalance == IF me.bal.exists
                         THEN CreditedBalance(me.bal.balance, amount)
                         ELSE amount
       IN  IF ~me.bal.exists /\ balances[me.dev].exists
           THEN /\ response' = Failure("validateToken", "ServerError")
                /\ UNCHANGED <<tokens, balances, redeemed>>
           ELSE /\ tokens' = [tokens EXCEPT ![me.tid] = UsedTokenRow(tokens[me.tid])]
                /\ balances' = [balances EXCEPT ![me.dev] =
                                  BalanceRow(newBalance, me.tok)]
                /\ redeemed' = [redeemed EXCEPT ![me.tid] = @ + 1]
                /\ response' = Success("validateToken", newBalance, amount, FALSE)
    /\ proc' = [proc EXCEPT ![p] = Idle]
    /\ scn' = ScnOnStep(TRUE)
    /\ UNCHANGED <<devices, requests, usageLogs, debited, iotUsed>>
    /\ UNCHANGED <<mqttVars, adminVars>>

(* ---- usageController.logDeviceUsage -> usageService.logDeviceUsage ---- *)

\* isNaN(parseFloat(usageAmount))
IsNaN(usageAmount) == usageAmount.type # "number"

\* parseFloat(usageAmount) of a value that is a number
ParseFloat(usageAmount) == usageAmount.value

\* the controller's amount check accepting every number
InvalidUsageAmount_NaNOnly(usageAmount) == IsNaN(usageAmount)

\* isNaN(parseFloat(usageAmount)) || parseFloat(usageAmount) <= 0
InvalidUsageAmount(usageAmount) ==
    IsNaN(usageAmount) \/ ParseFloat(usageAmount) <= 0

\* the controller's validation, tx.device.findFirst with its Balance, the
\* device checks and, when the row exists, the balance check
logDeviceUsage(p, deviceKey, body) ==
    /\ CanStart(p)
    /\ LET dev == FindDeviceByKey(deviceKey)
           usageAmount == ParseFloat(body)
           req == Request("logDeviceUsage", deviceKey, "", usageAmount)
           fail(result) == /\ response' = Failure("logDeviceUsage", result)
                           /\ scn' = ScnOnStart(req, TRUE)
                           /\ UNCHANGED <<proc, requests>>
           goto(pc) == /\ requests < MaxRequests
                       /\ requests' = requests + 1
                       /\ proc' = [proc EXCEPT ![p] =
                                     [pc |-> pc, key |-> deviceKey, tok |-> "",
                                      amt |-> usageAmount, dev |-> dev,
                                      bal |-> balances[dev], tid |-> 0]]
                       /\ scn' = ScnOnStart(req, FALSE)
                       /\ response' = NoResponse
       IN  IF body = Undefined THEN fail("MissingFields")
           ELSE IF InvalidUsageAmount(body) THEN fail("InvalidAmount")
           ELSE IF dev = NoDevice THEN fail("DeviceNotFound")
           ELSE IF ~devices[dev].status THEN fail("DeviceInactive")
           ELSE IF ~balances[dev].exists THEN goto("lu_createBalance")
           ELSE IF balances[dev].balance < usageAmount
           THEN /\ response' = Insufficient("logDeviceUsage", balances[dev].balance)
                /\ scn' = ScnOnStart(req, TRUE)
                /\ UNCHANGED <<proc, requests>>
           ELSE goto("lu_updateBalance")
    /\ UNCHANGED <<devices, tokens, balances, usageLogs,
                   redeemed, debited, iotUsed>>
    /\ UNCHANGED <<mqttVars, adminVars>>

\* tx.balance.create at 0, then 0 < usageAmount: returns and commits
logDeviceUsage_createBalance(p) ==
    /\ proc[p].pc = "lu_createBalance"
    /\ LET me == proc[p]
       IN  IF balances[me.dev].exists
           THEN /\ response' = Failure("logDeviceUsage", "ServerError")
                /\ UNCHANGED balances
           ELSE /\ balances' = [balances EXCEPT ![me.dev] = BalanceRow(0, "")]
                /\ response' = Insufficient("logDeviceUsage", 0)
    /\ proc' = [proc EXCEPT ![p] = Idle]
    /\ scn' = ScnOnStep(TRUE)
    /\ UNCHANGED <<devices, requests, tokens, usageLogs,
                   redeemed, debited, iotUsed>>
    /\ UNCHANGED <<mqttVars, adminVars>>

\* tx.balance.update, tx.usageLog.create, return, commit of both rows
logDeviceUsage_updateBalance(p) ==
    /\ proc[p].pc = "lu_updateBalance"
    /\ LET me == proc[p]
           newBalance == DebitedBalance(me.bal.balance, me.amt)
       IN  /\ balances' = [balances EXCEPT ![me.dev].balance = newBalance]
           /\ usageLogs' = usageLogs (+) SetToBag({UsageLogRow(me.dev, me.amt)})
           /\ debited' = [debited EXCEPT ![me.dev] = @ + me.amt]
           /\ response' = Success("logDeviceUsage", newBalance, 0, TRUE)
    /\ proc' = [proc EXCEPT ![p] = Idle]
    /\ scn' = ScnOnStep(TRUE)
    /\ UNCHANGED <<devices, requests, tokens, redeemed, iotUsed>>
    /\ UNCHANGED <<mqttVars, adminVars>>


(* ---- deviceIoTController.logDeviceUsage (no transaction) ---- *)

\* rules.logDeviceUsage: body('usageAmount').notEmpty().isFloat()
logDeviceUsageRule(usageAmount) == usageAmount.type = "number"

\* typeof usageAmount !== 'number' || usageAmount <= 0
IoT_InvalidUsageAmount(usageAmount) ==
    usageAmount.type # "number" \/ usageAmount.value <= 0

\* validate(rules.logDeviceUsage), prisma.device.findFirst with its Balance,
\* the device checks, the amount check
IoT_logDeviceUsage(p, deviceKey, body) ==
    /\ CanStart(p)
    /\ LET dev == FindDeviceByKey(deviceKey)
           usageAmount == body.value
           result == IF ~logDeviceUsageRule(body) THEN "ValidationFailed"
                     ELSE IF dev = NoDevice THEN "DeviceNotFound"
                     ELSE IF ~devices[dev].status THEN "DeviceInactive"
                     ELSE IF IoT_InvalidUsageAmount(body) THEN "InvalidAmount"
                     ELSE "ok"
       IN  IF result # "ok"
           THEN /\ response' = Failure("IoT_logDeviceUsage", result)
                /\ UNCHANGED <<proc, requests>>
           ELSE /\ requests < MaxRequests
                /\ requests' = requests + 1
                /\ proc' = [proc EXCEPT ![p] =
                              [pc |-> "iu_createLog", key |-> deviceKey, tok |-> "",
                               amt |-> usageAmount, dev |-> dev,
                               bal |-> balances[dev], tid |-> 0]]
                /\ response' = NoResponse
    /\ iotUsed' = TRUE
    /\ scn' = ScnOff
    /\ UNCHANGED <<devices, tokens, balances, usageLogs,
                   redeemed, debited>>
    /\ UNCHANGED <<mqttVars, adminVars>>

\* prisma.usageLog.create; without a Balance row the handler answers here
IoT_logDeviceUsage_createLog(p) ==
    /\ proc[p].pc = "iu_createLog"
    /\ LET me == proc[p]
       IN  /\ usageLogs' = usageLogs (+) SetToBag({UsageLogRow(me.dev, me.amt)})
           /\ IF me.bal.exists
              THEN /\ proc' = [proc EXCEPT ![p].pc = "iu_updateBalance"]
                   /\ response' = NoResponse
                   /\ UNCHANGED debited
              ELSE /\ proc' = [proc EXCEPT ![p] = Idle]
                   /\ debited' = [debited EXCEPT ![me.dev] = @ + me.amt]
                   /\ response' = Success("IoT_logDeviceUsage", 0, 0, FALSE)
    /\ scn' = ScnOff
    /\ UNCHANGED <<devices, requests, tokens, balances, redeemed, iotUsed>>
    /\ UNCHANGED <<mqttVars, adminVars>>

\* prisma.balance.update with Math.max(0, device.Balance.balance - usageAmount)
IoT_logDeviceUsage_updateBalance(p) ==
    /\ proc[p].pc = "iu_updateBalance"
    /\ LET me == proc[p]
           newBalance == ClampedBalance(me.bal.balance, me.amt)
       IN  /\ balances' = [balances EXCEPT ![me.dev].balance = newBalance]
           /\ debited' = [debited EXCEPT ![me.dev] = @ + me.amt]
           /\ response' = Success("IoT_logDeviceUsage", newBalance, 0, newBalance > 0)
    /\ proc' = [proc EXCEPT ![p] = Idle]
    /\ scn' = ScnOff
    /\ UNCHANGED <<devices, requests, tokens, usageLogs, redeemed, iotUsed>>
    /\ UNCHANGED <<mqttVars, adminVars>>

(* ---- deviceIoTController.validateDeviceToken (no transaction) ---- *)

\* prisma.device.findFirst with its Balance and the device checks
validateDeviceToken(p, deviceKey, tokenValue) ==
    /\ CanStart(p)
    /\ LET dev == FindDeviceByKey(deviceKey)
           result == IF dev = NoDevice THEN "DeviceNotFound"
                     ELSE IF ~devices[dev].status THEN "DeviceInactive"
                     ELSE "ok"
       IN  IF result # "ok"
           THEN /\ response' = Failure("validateDeviceToken", result)
                /\ UNCHANGED <<proc, requests>>
           ELSE /\ requests < MaxRequests
                /\ requests' = requests + 1
                /\ proc' = [proc EXCEPT ![p] =
                              [pc |-> "iv_findToken", key |-> deviceKey,
                               tok |-> tokenValue, amt |-> 0, dev |-> dev,
                               bal |-> balances[dev], tid |-> 0]]
                /\ response' = NoResponse
    /\ iotUsed' = TRUE
    /\ scn' = ScnOff
    /\ UNCHANGED <<devices, tokens, balances, usageLogs,
                   redeemed, debited>>
    /\ UNCHANGED <<mqttVars, adminVars>>

\* the checks on the token that prisma.token.findFirst returned
ValidateDeviceTokenError(tokenRecord, deviceId) ==
    IF ~tokenRecord.exists THEN "InvalidOrUsedToken"
    ELSE IF tokenRecord.deviceId # deviceId THEN "DeviceMismatch"
    ELSE "ok"

\* prisma.token.findFirst({ token, status: 'unused' }) and the checks
validateDeviceToken_findToken(p) ==
    /\ proc[p].pc = "iv_findToken"
    /\ LET me == proc[p]
           tid == FindUnusedToken(me.tok)
           tokenRecord == IF tid = 0 THEN NoRow ELSE tokens[tid]
           err == ValidateDeviceTokenError(tokenRecord, me.dev)
       IN  IF err # "ok"
           THEN /\ response' = Failure("validateDeviceToken", err)
                /\ proc' = [proc EXCEPT ![p] = Idle]
           ELSE /\ proc' = [proc EXCEPT ![p].pc = "iv_updateToken", ![p].tid = tid]
                /\ response' = NoResponse
    /\ scn' = ScnOff
    /\ UNCHANGED <<devices, requests, tokens, balances, usageLogs,
                   redeemed, debited, iotUsed>>
    /\ UNCHANGED <<mqttVars, adminVars>>

\* prisma.token.update: committed at once
validateDeviceToken_updateToken(p) ==
    /\ proc[p].pc = "iv_updateToken"
    /\ tokens' = [tokens EXCEPT ![proc[p].tid] = UsedTokenRow(tokens[proc[p].tid])]
    /\ proc' = [proc EXCEPT ![p].pc = "iv_updateBalance"]
    /\ scn' = ScnOff
    /\ response' = NoResponse
    /\ UNCHANGED <<devices, requests, balances, usageLogs,
                   redeemed, debited, iotUsed>>
    /\ UNCHANGED <<mqttVars, adminVars>>

\* prisma.balance.update / create from the Balance read with the device
validateDeviceToken_updateBalance(p) ==
    /\ proc[p].pc = "iv_updateBalance"
    /\ LET me == proc[p]
           amount == tokens[me.tid].amount
           currentBalance == IF me.bal.exists THEN me.bal.balance ELSE 0
           newBalance == CreditedBalance(currentBalance, amount)
       IN  IF ~me.bal.exists /\ balances[me.dev].exists
           THEN /\ response' = Failure("validateDeviceToken", "ServerError")
                /\ UNCHANGED <<balances, redeemed>>
           ELSE /\ balances' = [balances EXCEPT ![me.dev] =
                                  BalanceRow(IF me.bal.exists THEN newBalance
                                                              ELSE amount, me.tok)]
                /\ redeemed' = [redeemed EXCEPT ![me.tid] = @ + 1]
                /\ response' = Success("validateDeviceToken", newBalance, amount, FALSE)
    /\ proc' = [proc EXCEPT ![p] = Idle]
    /\ scn' = ScnOff
    /\ UNCHANGED <<devices, requests, tokens, usageLogs, debited, iotUsed>>
    /\ UNCHANGED <<mqttVars, adminVars>>

(* ---- balanceService.checkDeviceBalance / deviceIoTController.checkDeviceBalance ---- *)

\* the check creating the missing Balance row as the usage service does
BalancesAfterCheck_Create(dev) ==
    IF dev # NoDevice /\ devices[dev].status /\ ~balances[dev].exists
    THEN [balances EXCEPT ![dev] = BalanceRow(0, "")]
    ELSE balances

\* the balances table after a balance check: the check runs no write
BalancesAfterCheck(dev) == balances

\* what the check answers for the device row (with its Balance) it read
CheckBalanceResponse(op, dev) ==
    IF dev = NoDevice THEN Failure(op, "DeviceNotFound")
    ELSE IF ~devices[dev].status THEN Failure(op, "DeviceInactive")
    ELSE IF ~balances[dev].exists THEN BalanceInfo(op, 0, "")
    ELSE BalanceInfo(op, balances[dev].balance, balances[dev].lastToken)

\* prisma.device.findFirst selecting Balance, the device checks, the answer
checkDeviceBalance(p, deviceKey) ==
    /\ CanStart(p)
    /\ LET dev == FindDeviceByKey(deviceKey)
       IN  /\ response' = CheckBalanceResponse("checkDeviceBalance", dev)
           /\ balances' = BalancesAfterCheck(dev)
    /\ scn' = ScnOff
    /\ UNCHANGED <<devices, requests, tokens, usageLogs, proc,
                   redeemed, debited, iotUsed>>
    /\ UNCHANGED <<mqttVars, adminVars>>

\* prisma.device.findFirst including Balance, the device checks, the answer
IoT_checkDeviceBalance(p, deviceKey) ==
    /\ CanStart(p)
    /\ LET dev == FindDeviceByKey(deviceKey)
       IN  /\ response' = CheckBalanceResponse("IoT_checkDeviceBalance", dev)
           /\ balances' = BalancesAfterCheck(dev)
    /\ scn' = ScnOff
    /\ UNCHANGED <<devices, requests, tokens, usageLogs, proc,
                   redeemed, debited, iotUsed>>
    /\ UNCHANGED <<mqttVars, adminVars>>

(* ---- a request that dies between two awaited calls ---- *)

\* process kill, lost connection or a rejected query: an open transaction is
\* rolled back, the statements the IoT handlers already ran stay committed,
\* and no response is sent
abort(p) ==
    /\ proc[p].pc # "idle"
    /\ proc' = [proc EXCEPT ![p] = Idle]
    /\ scn' = ScnOff
    /\ response' = NoResponse
    /\ UNCHANGED <<devices, requests, tokens, balances, usageLogs,
                   redeemed, debited, iotUsed>>
    /\ UNCHANGED <<mqttVars, adminVars>>

(* ---- mqttService ---- *)

ledgerVars == <<devices, tokens, balances, usageLogs, proc, response,
                redeemed, debited, iotUsed, requests, scn, adminVars>>

maxRetries == 5

\* subscribeToDeviceTopics: the topics on which the client receives messages,
\* split at '/', for one device key
SubscribedTopics(deviceKey) ==
    { <<"water-meter", deviceKey, "auth", "request">>,
      <<"water-meter", deviceKey, "balance", "check", "request">>,
      <<"water-meter", deviceKey, "usage", "log", "request">>,
      <<"water-meter", deviceKey, "token", "validate", "request">>,
      <<"water-meter", deviceKey, "heartbeat">> }

InboundTopics == UNION {SubscribedTopics(k) : k \in RequestKeys}

\* message bodies: a JSON document, or bytes that JSON.parse rejects
Payloads == {"json", "garbage"}

\* topic.split('/')[i]
TopicPart(topic, i) ==
    IF i + 1 <= Len(topic) THEN topic[i + 1] ELSE "undefined"

\* the routing of handleMessage: the method it calls for the topic
RouteOf(topic) ==
    LET action == TopicPart(topic, 2)
        subAction == TopicPart(topic, 3)
    IN  IF action = "auth" /\ subAction = "request" THEN "handleDeviceAuth"
        ELSE IF action = "balance" /\ subAction = "check"
                  /\ TopicPart(topic, 4) = "request" THEN "handleBalanceCheck"
        ELSE IF action = "usage" /\ subAction = "log"
                  /\ TopicPart(topic, 4) = "request" THEN "handleUsageLog"
        ELSE IF action = "token" /\ subAction = "validate"
                  /\ TopicPart(topic, 4) = "request" THEN "handleTokenValidation"
        ELSE IF action = "heartbeat" THEN "handleHeartbeat"
        ELSE "none"

\* the methods that class MQTTService defines among those handleMessage
\* calls; calling another one throws a TypeError
DefinedHandlers == {"handleDeviceAuth"}

\* handleMessage letting the error out of the promise
HandleMessageCatch_Rethrow == [logged |-> 0, rejected |-> 1]

\* catch (error) { logger.error(...) } of handleMessage
HandleMessageCatch == [logged |-> 1, rejected |-> 0]

\* `water-meter/${deviceKey}/auth/response`
AuthResponseTopic(deviceKey) == <<"water-meter", deviceKey, "auth", "response">>

\* prisma.device.findFirst({ where: { deviceKey, status: true } })
FindActiveDeviceByKey(deviceKey) ==
    IF \E d \in DeviceIds : /\ devices[d].exists
                             /\ devices[d].deviceKey = deviceKey
                             /\ devices[d].status
    THEN CHOOSE d \in DeviceIds : /\ devices[d].exists
                                   /\ devices[d].deviceKey = deviceKey
                                   /\ devices[d].status
    ELSE NoDevice

\* a variant that hands the message to the client in any case
Publish_Always(topic, success) ==
    Append(published, [topic |-> topic, success |-> success])

\* publish(topic, payload): nothing is sent while the client is not connected
Publish(topic, success) ==
    IF isConnected
    THEN Append(published, [topic |-> topic, success |-> success])
    ELSE published

IdleHandler == [pc |-> "idle", topic |-> <<>>]

\* client.on('message') -> handleMessage, up to its first await: JSON.parse,
\* the routing and the call of the handler.  A rejected handleMessage promise
\* is an unhandled rejection, which ends the process.
handleMessage(h, topic, payload) ==
    /\ rejected = 0
    /\ isConnected
    /\ received < MaxMessages
    /\ handlers[h].pc = "idle"
    /\ \A g \in 1..NumHandlers : g < h => handlers[g].pc # "idle"
    /\ received' = received + 1
    /\ IF payload = "garbage" \/ RouteOf(topic) \notin DefinedHandlers \cup {"none"}
       THEN /\ errorLog' = errorLog + HandleMessageCatch.logged
            /\ rejected' = rejected + HandleMessageCatch.rejected
            /\ UNCHANGED <<handlers, published>>
       ELSE IF RouteOf(topic) = "handleDeviceAuth"
       THEN /\ handlers' = [handlers EXCEPT ![h] =
                               [pc |-> "auth_findDevice", topic |-> topic]]
            /\ UNCHANGED <<errorLog, rejected, published>>
       ELSE UNCHANGED <<handlers, published, errorLog, rejected>>
    /\ UNCHANGED <<isConnected, retryCount, connects, connVars, ledgerVars>>

\* handleDeviceAuth: prisma.device.findFirst returns or throws; without an
\* active device the failure response is published
handleDeviceAuth_findDevice(h, queryFails) ==
    /\ rejected = 0
    /\ handlers[h].pc = "auth_findDevice"
    /\ LET deviceKey == TopicPart(handlers[h].topic, 1)
           device == FindActiveDeviceByKey(deviceKey)
       IN  IF queryFails
           THEN /\ errorLog' = errorLog + 1
                /\ published' = Publish(AuthResponseTopic(deviceKey), FALSE)
                /\ handlers' = [handlers EXCEPT ![h] = IdleHandler]
           ELSE IF device = NoDevice
           THEN /\ published' = Publish(AuthResponseTopic(deviceKey), FALSE)
                /\ handlers' = [handlers EXCEPT ![h] = IdleHandler]
                /\ UNCHANGED errorLog
           ELSE /\ handlers' = [handlers EXCEPT ![h].pc = "auth_updateDevice"]
                /\ UNCHANGED <<published, errorLog>>
    /\ UNCHANGED <<isConnected, retryCount, received, connects, rejected,
                   connVars, ledgerVars>>

\* handleDeviceAuth: prisma.device.update of updatedAt returns or throws, then
\* the response is published
handleDeviceAuth_updateDevice(h, queryFails) ==
    /\ rejected = 0
    /\ handlers[h].pc = "auth_updateDevice"
    /\ LET deviceKey == TopicPart(handlers[h].topic, 1)
       IN  IF queryFails
           THEN /\ errorLog' = errorLog + 1
                /\ published' = Publish(AuthResponseTopic(deviceKey), FALSE)
           ELSE /\ published' = Publish(AuthResponseTopic(deviceKey), TRUE)
                /\ UNCHANGED errorLog
    /\ handlers' = [handlers EXCEPT ![h] = IdleHandler]
    /\ UNCHANGED <<isConnected, retryCount, received, connects, rejected,
                   connVars, ledgerVars>>

\* the number of clients made so far; this.client is the last of them
Created_clients == Cardinality({c \in ClientIds : clients[c] # "none"})

\* connect(): mqtt.connect makes a new client and registers the handlers on
\* it; the client that this.client held before is left as it is
connect == [clients EXCEPT ![Created_clients + 1] = "connecting"]

\* subscribe(topic): nothing is sent while the client is not connected,
\* otherwise the topic is handed to client.subscribe
subscribe(connected, pending, topic) ==
    IF ~connected THEN pending ELSE Append(pending, topic)

\* subscribeToDeviceTopics: subscribe is called for each device topic
subscribeToDeviceTopics(connected, pending) ==
    LET sub[i \in 0..Len(DeviceTopics)] ==
            IF i = 0 THEN pending
            ELSE subscribe(connected, sub[i - 1], DeviceTopics[i])
    IN  sub[Len(DeviceTopics)]

\* the value publish returns
publish_returns(connected) == IF ~connected THEN FALSE ELSE TRUE

\* a variant that counts and schedules a retry at every close
handleReconnection_Unbounded ==
    /\ retryCount' = retryCount + 1
    /\ timers' = timers + 1
    /\ UNCHANGED errorLog

\* handleReconnection: below maxRetries the retry is counted and a timer is
\* set, otherwise an error is logged
handleReconnection ==
    IF retryCount < maxRetries
    THEN /\ retryCount' = retryCount + 1
         /\ timers' = timers + 1
         /\ UNCHANGED errorLog
    ELSE /\ errorLog' = errorLog + 1
         /\ UNCHANGED <<retryCount, timers>>

\* client.on('close') of client c, emitted when its connection is lost, when
\* an attempt of the client to connect fails, and after client.end():
\* isConnected = false, then handleReconnection counts the retry and sets a
\* timer.  A client that was not ended goes on trying to connect
\* (reconnectPeriod).
client_close(c) ==
    /\ rejected = 0
    /\ clients[c] \in {"connecting", "connected", "ending"}
    /\ events < MaxEvents
    /\ events' = events + 1
    /\ clients' = [clients EXCEPT ![c] = IF @ = "ending" THEN "ended" ELSE "connecting"]
    /\ isConnected' = FALSE
    /\ handleReconnection
    /\ UNCHANGED <<handlers, published, received, connects, rejected,
                   adminTimers, subscribing, subscribers, stopped, ledgerVars>>

\* client.on('connect') of client c: isConnected = true, retryCount = 0, the
\* backend status is published and the device topics are subscribed
client_connect(c) ==
    /\ rejected = 0
    /\ clients[c] = "connecting"
    /\ clients' = [clients EXCEPT ![c] = "connected"]
    /\ isConnected' = TRUE
    /\ retryCount' = 0
    /\ connects' = connects + 1
    /\ published' = Append(published,
                           [topic |-> <<"water-meter", "backend", "status">>,
                            success |-> TRUE])
    /\ subscribing' = subscribeToDeviceTopics(TRUE, subscribing)
    /\ UNCHANGED <<handlers, errorLog, received, rejected,
                   timers, adminTimers, subscribers, stopped, events, ledgerVars>>

\* the callback of client.subscribe for the oldest unanswered topic: with an
\* error it only logs, without one the topic is recorded in subscribers
client_suback(error) ==
    /\ rejected = 0
    /\ subscribing # <<>>
    /\ error \/ \E c \in ClientIds : clients[c] = "connected"
    /\ subscribing' = Tail(subscribing)
    /\ IF error
       THEN /\ errorLog' = errorLog + 1
            /\ UNCHANGED subscribers
       ELSE /\ subscribers' = subscribers \cup {Head(subscribing)}
            /\ UNCHANGED errorLog
    /\ UNCHANGED <<isConnected, retryCount, handlers, published, received,
                   connects, rejected, clients, timers, adminTimers, stopped,
                   events, ledgerVars>>

\* the callback of the timer that handleReconnection set: connect() unless
\* the service is connected by now
handleReconnection_timeout ==
    /\ rejected = 0
    /\ timers > 0
    /\ isConnected \/ Created_clients < MaxClients
    /\ timers' = timers - 1
    /\ clients' = IF ~isConnected THEN connect ELSE clients
    /\ UNCHANGED <<isConnected, retryCount, handlers, published, errorLog,
                   received, connects, rejected, adminTimers, subscribing,
                   subscribers, stopped, events, ledgerVars>>

\* server.js, the callback of setInterval: connect() when getStatus() says
\* that the service is not connected (while connected it changes nothing)
reconnectCheck ==
    /\ rejected = 0
    /\ ~isConnected
    /\ Created_clients < MaxClients
    /\ clients' = connect
    /\ UNCHANGED <<isConnected, retryCount, handlers, published, errorLog,
                   received, connects, rejected, timers, adminTimers,
                   subscribing, subscribers, stopped, events, ledgerVars>>

\* what disconnect() does to the service: while connected it publishes the
\* offline status, ends this.client and sets isConnected = false; otherwise
\* nothing
disconnect ==
    IF Created_clients > 0 /\ isConnected
    THEN /\ published' = Publish(<<"water-meter", "backend", "status">>, FALSE)
         /\ clients' = [clients EXCEPT ![Created_clients] =
                           IF @ = "ended" THEN @ ELSE "ending"]
         /\ isConnected' = FALSE
         /\ stopped' = TRUE
    ELSE UNCHANGED <<published, clients, isConnected, stopped>>

\* server.js, the SIGTERM and SIGINT handlers: disconnect(), and the process
\* goes on running
shutdown ==
    /\ rejected = 0
    /\ isConnected
    /\ disconnect
    /\ UNCHANGED <<retryCount, handlers, errorLog, received, connects, rejected,
                   timers, adminTimers, subscribing, subscribers, events,
                   ledgerVars>>

\* mqttController.reconnectMQTT by an admin: disconnect(), and a timer that
\* will call connect()
reconnectMQTT ==
    /\ rejected = 0
    /\ events < MaxEvents
    /\ events' = events + 1
    /\ disconnect
    /\ adminTimers' = adminTimers + 1
    /\ UNCHANGED <<retryCount, handlers, errorLog, received, connects, rejected,
                   timers, subscribing, subscribers, ledgerVars>>

\* reconnectMQTT, the callback of its timer: the caller's connect()
reconnectMQTT_timeout ==
    /\ rejected = 0
    /\ adminTimers > 0
    /\ Created_clients < MaxClients
    /\ adminTimers' = adminTimers - 1
    /\ clients' = connect
    /\ stopped' = FALSE
    /\ UNCHANGED <<isConnected, retryCount, handlers, published, errorLog,
                   received, connects, rejected, timers, subscribing,
                   subscribers, events, ledgerVars>>

\* the message runs: the one client loses its connection and gets it back
MqttNext ==
    \/ \E h \in 1..NumHandlers, topic \in InboundTopics, payload \in Payloads :
          handleMessage(h, topic, payload)
    \/ \E h \in 1..NumHandlers, queryFails \in BOOLEAN :
          handleDeviceAuth_findDevice(h, queryFails)
    \/ \E h \in 1..NumHandlers, queryFails \in BOOLEAN :
          handleDeviceAuth_updateDevice(h, queryFails)
    \/ (isConnected /\ connects < MaxConnects /\ client_close(1))
    \/ client_connect(1)

MqttSpec == Init /\ [][MqttNext]_vars

\* the connection runs: closes, timers, the reconnect check, shutdown signals
\* and reconnect requests in any order
ConnNext ==
    \/ \E c \in ClientIds : client_close(c)
    \/ \E c \in ClientIds : client_connect(c)
    \/ handleReconnection_timeout
    \/ reconnectCheck
    \/ shutdown
    \/ reconnectMQTT
    \/ reconnectMQTT_timeout

ConnSpec == Init /\ [][ConnNext]_vars

\* the publish and subscribe runs: auth requests are handled while the one
\* client loses its connection and gets it back, and the subscriptions are
\* answered
PubSubNext ==
    \/ \E h \in 1..NumHandlers, k \in RequestKeys :
          handleMessage(h, <<"water-meter", k, "auth", "request">>, "json")
    \/ \E h \in 1..NumHandlers : handleDeviceAuth_findDevice(h, FALSE)
    \/ \E h \in 1..NumHandlers : handleDeviceAuth_updateDevice(h, FALSE)
    \/ (isConnected /\ connects < MaxConnects /\ client_close(1))
    \/ client_connect(1)
    \/ \E error \in BOOLEAN : client_suback(error)

PubSubSpec == Init /\ [][PubSubNext]_vars

\* the tokens of the ledger runs are issued by the admin
Issuer == "U1"

(* ---- deviceService: createDevice, updateDevice, deleteDevice ---- *)

\* the slot of a device that was deleted; its id is not given out again
DeletedDeviceRow ==
    [exists |-> FALSE, deviceKey |-> "", status |-> FALSE, userId |-> "deleted"]

\* the amount of the tokens issued next to the administration requests
IssueAmount == 50

\* the callers: every user of the users table
Callers == UserIds

\* the device keys and the owner ids that a createDevice body carries; ""
\* is an absent userId, UX the id of no user
NewDeviceKeys == {"K1", "K3"}
OwnerInputs == {"", "U3", "UX"}

\* the deviceKey and status that an updateDevice body carries; "" and
\* "undefined" are the absent ones
UpdateKeys == {"", "K3"}
UpdateStatuses == {"undefined", "true"}

Created(op) ==
    [op |-> op, result |-> "ok", code |-> STATUS_CODES.CREATED,
     balance |-> 0, amount |-> 0, canUse |-> FALSE, lastToken |-> ""]

Done(op) ==
    [op |-> op, result |-> "ok", code |-> STATUS_CODES.SUCCESS,
     balance |-> 0, amount |-> 0, canUse |-> FALSE, lastToken |-> ""]

\* a new administration request takes the first free slot
AdminCanStart(a) ==
    /\ admin[a].pc = "idle"
    /\ \A b \in 1..NumAdmins : b < a => admin[b].pc # "idle"
    /\ adminRequests < MaxAdminRequests

\* createDevice making the creator the owner whatever the body says
OwnerId_Creator(userId, creatorId, creatorRole) == creatorId

\* (userId && creatorRole === ROLES.ADMIN || creatorRole == ROLES.SUPER_ADMIN)
\*    ? userId : creatorId
\* ROLES has no SUPER_ADMIN, so the second operand compares the role with
\* undefined, which is false for every role string
OwnerId(userId, creatorId, creatorRole) ==
    IF (userId # "" /\ creatorRole = ROLES.ADMIN) \/ FALSE
    THEN userId
    ELSE creatorId

\* a Balance, Token or UsageLog row refers to the device: the foreign keys
\* (no onDelete in schema.prisma, hence RESTRICT) keep the device row
Referenced(d) ==
    \/ balances[d].exists
    \/ \E tid \in TokenIds : tokens[tid].exists /\ tokens[tid].deviceId = d
    \/ \E r \in BagToSet(usageLogs) : r.deviceId = d

\* createDevice: the owner, prisma.device.findFirst({ where: { deviceKey } })
createDevice(a, creatorId, deviceKey, userId) ==
    /\ AdminCanStart(a)
    /\ IF FindDeviceByKey(deviceKey) # NoDevice
       THEN /\ response' = Failure("createDevice", "KeyConflict")
            /\ UNCHANGED <<admin, adminRequests>>
       ELSE /\ admin' = [admin EXCEPT ![a] =
                           [pc |-> "cd_create", dev |-> "",
                            key |-> deviceKey, status |-> "undefined",
                            owner |-> OwnerId(userId, creatorId, RoleOf(creatorId))]]
            /\ adminRequests' = adminRequests + 1
            /\ response' = NoResponse
    /\ scn' = ScnOff
    /\ UNCHANGED <<devices, tokens, balances, usageLogs, proc, redeemed, debited,
                   iotUsed, requests, adjusted, adjustments, mqttVars>>

\* createDevice: prisma.device.create with the nested Balance create; an
\* owner id of no user violates the foreign key of devices.userId
createDevice_create(a) ==
    /\ admin[a].pc = "cd_create"
    /\ \E e \in DeviceIds : devices[e] = NoDeviceRow
    /\ LET d == CHOOSE e \in DeviceIds : devices[e] = NoDeviceRow
       IN  IF admin[a].owner \notin UserIds
           THEN /\ response' = Failure("createDevice", "ServerError")
                /\ UNCHANGED <<devices, balances>>
           ELSE /\ devices' = [devices EXCEPT ![d] =
                                  DeviceRow(admin[a].key, FALSE, admin[a].owner)]
                /\ balances' = [balances EXCEPT ![d] = BalanceRow(0, "")]
                /\ response' = Created("createDevice")
    /\ admin' = [admin EXCEPT ![a] = IdleAdmin]
    /\ scn' = ScnOff
    /\ UNCHANGED <<tokens, usageLogs, proc, redeemed, debited, iotUsed, requests,
                   adminRequests, adjusted, adjustments, mqttVars>>

\* updateDevice: prisma.device.findUnique, enforceOwnership, and whether the
\* key is to be looked up
updateDevice(a, userId, deviceId, deviceKey, status) ==
    /\ AdminCanStart(a)
    /\ IF ~verifyOwnership(devices[deviceId], userId, RoleOf(userId))
       THEN /\ response' = Failure("updateDevice", "DeviceNotFound")
            /\ UNCHANGED <<admin, adminRequests>>
       ELSE /\ admin' = [admin EXCEPT ![a] =
                           [pc |-> IF deviceKey # "" /\ deviceKey # devices[deviceId].deviceKey
                                   THEN "ud_findKey" ELSE "ud_update",
                            dev |-> deviceId, key |-> deviceKey,
                            status |-> status, owner |-> ""]]
            /\ adminRequests' = adminRequests + 1
            /\ response' = NoResponse
    /\ scn' = ScnOff
    /\ UNCHANGED <<devices, tokens, balances, usageLogs, proc, redeemed, debited,
                   iotUsed, requests, adjusted, adjustments, mqttVars>>

\* updateDevice: prisma.device.findFirst({ where: { deviceKey, NOT: { id } } })
updateDevice_findKey(a) ==
    /\ admin[a].pc = "ud_findKey"
    /\ IF \E d \in DeviceIds \ {admin[a].dev} :
             devices[d].exists /\ devices[d].deviceKey = admin[a].key
       THEN /\ response' = Failure("updateDevice", "KeyConflict")
            /\ admin' = [admin EXCEPT ![a] = IdleAdmin]
       ELSE /\ response' = NoResponse
            /\ admin' = [admin EXCEPT ![a].pc = "ud_update"]
    /\ scn' = ScnOff
    /\ UNCHANGED <<devices, tokens, balances, usageLogs, proc, redeemed, debited,
                   iotUsed, requests, adminRequests, adjusted, adjustments, mqttVars>>

\* updateDevice: prisma.device.update({ where: { id }, data }); it throws
\* when the row is gone
updateDevice_update(a) ==
    /\ admin[a].pc = "ud_update"
    /\ LET me == admin[a]
           row == devices[me.dev]
       IN  IF ~row.exists
           THEN /\ response' = Failure("updateDevice", "ServerError")
                /\ UNCHANGED devices
           ELSE /\ devices' = [devices EXCEPT ![me.dev] =
                                 [row EXCEPT
                                    !.deviceKey = IF me.key # "" THEN me.key ELSE @,
                                    !.status = IF me.status = "undefined" THEN @
                                               ELSE me.status = "true"]]
                /\ response' = Done("updateDevice")
    /\ admin' = [admin EXCEPT ![a] = IdleAdmin]
    /\ scn' = ScnOff
    /\ UNCHANGED <<tokens, balances, usageLogs, proc, redeemed, debited, iotUsed,
                   requests, adminRequests, adjusted, adjustments, mqttVars>>

\* deleteDevice: prisma.device.findUnique and enforceOwnership
deleteDevice(a, userId, deviceId) ==
    /\ AdminCanStart(a)
    /\ IF ~verifyOwnership(devices[deviceId], userId, RoleOf(userId))
       THEN /\ response' = Failure("deleteDevice", "DeviceNotFound")
            /\ UNCHANGED <<admin, adminRequests>>
       ELSE /\ admin' = [admin EXCEPT ![a] =
                           [pc |-> "dd_delete", dev |-> deviceId,
                            key |-> "", status |-> "undefined", owner |-> ""]]
            /\ adminRequests' = adminRequests + 1
            /\ response' = NoResponse
    /\ scn' = ScnOff
    /\ UNCHANGED <<devices, tokens, balances, usageLogs, proc, redeemed, debited,
                   iotUsed, requests, adjusted, adjustments, mqttVars>>

\* deleteDevice: prisma.device.delete({ where: { id } }); it throws when the
\* row is gone and when a row of another table still refers to the device
deleteDevice_delete(a) ==
    /\ admin[a].pc = "dd_delete"
    /\ IF ~devices[admin[a].dev].exists \/ Referenced(admin[a].dev)
       THEN /\ response' = Failure("deleteDevice", "ServerError")
            /\ UNCHANGED devices
       ELSE /\ devices' = [devices EXCEPT ![admin[a].dev] = DeletedDeviceRow]
            /\ response' = Done("deleteDevice")
    /\ admin' = [admin EXCEPT ![a] = IdleAdmin]
    /\ scn' = ScnOff
    /\ UNCHANGED <<tokens, balances, usageLogs, proc, redeemed, debited, iotUsed,
                   requests, adminRequests, adjusted, adjustments, mqttVars>>

AdminNext ==
    \/ \E u \in Callers, d \in DeviceIds : createToken(u, RoleOf(u), d, IssueAmount)
    \/ \E a \in 1..NumAdmins, u \in Callers, k \in NewDeviceKeys, o \in OwnerInputs :
          createDevice(a, u, k, o)
    \/ \E a \in 1..NumAdmins : createDevice_create(a)
    \/ \E a \in 1..NumAdmins, u \in Callers, d \in DeviceIds,
          k \in UpdateKeys, s \in UpdateStatuses : updateDevice(a, u, d, k, s)
    \/ \E a \in 1..NumAdmins : updateDevice_findKey(a)
    \/ \E a \in 1..NumAdmins : updateDevice_update(a)
    \/ \E a \in 1..NumAdmins, u \in Callers, d \in DeviceIds : deleteDevice(a, u, d)
    \/ \E a \in 1..NumAdmins : deleteDevice_delete(a)

AdminSpec == Init /\ [][AdminNext]_vars

(* ---- balanceService.updateBalance (operator endpoint) ---- *)

\* the amounts that an updateBalance body carries
OperatorAmounts == {-30, 25}

\* prisma.device.findFirst({ id, userId unless ADMIN }); then, inside
\* prisma.$transaction, tx.balance.findUnique, which fixes the snapshot
updateBalance(p, userId, deviceId, amount) ==
    /\ CanStart(p)
    /\ IF ~(/\ devices[deviceId].exists
            /\ RoleOf(userId) = ROLES.ADMIN \/ devices[deviceId].userId = userId)
       THEN /\ response' = Failure("updateBalance", "DeviceNotFound")
            /\ UNCHANGED <<proc, adjustments>>
       ELSE /\ adjustments < MaxAdjustments
            /\ adjustments' = adjustments + 1
            /\ proc' = [proc EXCEPT ![p] =
                          [pc |-> "ub_write", key |-> "", tok |-> "", amt |-> amount,
                           dev |-> deviceId, bal |-> balances[deviceId], tid |-> 0]]
            /\ response' = NoResponse
    /\ scn' = ScnOff
    /\ UNCHANGED <<devices, tokens, balances, usageLogs, redeemed, debited, iotUsed,
                   requests, admin, adminRequests, adjusted, mqttVars>>

\* tx.balance.create({ balance: amount }) without a row in the snapshot,
\* else tx.balance.update({ balance: balance.balance + amount }); commit.
\* A create that meets a committed row violates deviceId @unique.
updateBalance_write(p) ==
    /\ proc[p].pc = "ub_write"
    /\ LET me == proc[p]
           newBalance == IF me.bal.exists THEN me.bal.balance + me.amt ELSE me.amt
       IN  IF ~me.bal.exists /\ balances[me.dev].exists
           THEN /\ response' = Failure("updateBalance", "ServerError")
                /\ UNCHANGED <<balances, adjusted>>
           ELSE /\ balances' = [balances EXCEPT ![me.dev] =
                                  IF me.bal.exists
                                  THEN [balances[me.dev] EXCEPT !.balance = newBalance]
                                  ELSE BalanceRow(newBalance, "")]
                /\ adjusted' = [adjusted EXCEPT ![me.dev] = @ + me.amt]
                /\ response' = BalanceInfo("updateBalance", newBalance,
                                           balances'[me.dev].lastToken)
    /\ proc' = [proc EXCEPT ![p] = Idle]
    /\ scn' = ScnOff
    /\ UNCHANGED <<devices, tokens, usageLogs, redeemed, debited, iotUsed,
                   requests, admin, adminRequests, adjustments, mqttVars>>

\* the operator endpoint next to the service-layer redemption and usage
OperatorNext ==
    \/ \E d \in DeviceIds : createToken(Issuer, RoleOf(Issuer), d, IssueAmount)
    \/ \E p \in Procs, t \in RequestTokens, k \in RequestKeys : validateToken(p, t, k)
    \/ \E p \in Procs : validateToken_updateBalance(p)
    \/ \E p \in Procs, k \in RequestKeys, u \in UsageAmounts :
          logDeviceUsage(p, k, Number(u))
    \/ \E p \in Procs : logDeviceUsage_createBalance(p)
    \/ \E p \in Procs : logDeviceUsage_updateBalance(p)
    \/ \E p \in Procs, u \in Callers, d \in DeviceIds, a \in OperatorAmounts :
          updateBalance(p, u, d, a)
    \/ \E p \in Procs : updateBalance_write(p)

OperatorSpec == Init /\ [][OperatorNext]_vars

(* ---- specification ---- *)

Next ==
    \/ \E d \in DeviceIds, a \in TokenAmounts : createToken(Issuer, RoleOf(Issuer), d, a)
    \/ \E p \in Procs, t \in RequestTokens, k \in RequestKeys : validateToken(p, t, k)
    \/ \E p \in Procs : validateToken_updateBalance(p)
    \/ \E p \in Procs, k \in RequestKeys, u \in UsageBodies : logDeviceUsage(p, k, u)
    \/ \E p \in Procs : logDeviceUsage_createBalance(p)
    \/ \E p \in Procs : logDeviceUsage_updateBalance(p)
    \/ \E p \in Procs, k \in RequestKeys, u \in UsageBodies : IoT_logDeviceUsage(p, k, u)
    \/ \E p \in Procs : IoT_logDeviceUsage_createLog(p)
    \/ \E p \in Procs : IoT_logDeviceUsage_updateBalance(p)
    \/ \E p \in Procs, k \in RequestKeys, t \in RequestTokens : validateDeviceToken(p, k, t)
    \/ \E p \in Procs : validateDeviceToken_findToken(p)
    \/ \E p \in Procs : validateDeviceToken_updateToken(p)
    \/ \E p \in Procs : validateDeviceToken_updateBalance(p)
    \/ \E p \in Procs, k \in RequestKeys : checkDeviceBalance(p, k)
    \/ \E p \in Procs, k \in RequestKeys : IoT_checkDeviceBalance(p, k)
    \/ \E p \in Procs : abort(p)

Spec == Init /\ [][Next]_vars

TypeOK ==
    /\ \A tid \in TokenIds : redeemed[tid] \in Nat
    /\ scn \in -1..5
    /\ requests \in 0..MaxRequests

(* ---- quantities the claims speak about ---- *)

RECURSIVE CreditedUpTo(_, _)
CreditedUpTo(d, n) ==
    IF n = 0 THEN 0
    ELSE CreditedUpTo(d, n - 1)
           + (IF tokens[n].exists /\ tokens[n].deviceId = d
              THEN redeemed[n] * tokens[n].amount ELSE 0)

\* sum of the amounts that successful redemptions credited to device d
Credited(d) == CreditedUpTo(d, MaxTokens)

RECURSIVE SumRows(_, _)
SumRows(rows, logs) ==
    IF rows = {} THEN 0
    ELSE LET r == CHOOSE x \in rows : TRUE
         IN  CopiesIn(r, logs) * r.usageAmount + SumRows(rows \ {r}, logs)

\* sum of the usageAmount of the UsageLog rows of device d in the table logs
LogSum(d, logs) == SumRows({r \in BagToSet(logs) : r.deviceId = d}, logs)

\* the balance that request p read for its device
ReadBalance(p) == IF proc[p].bal.exists THEN proc[p].bal.balance ELSE 0

\* the step in which usage report p answers its caller
UsageAnswer(p) ==
    \/ logDeviceUsage_createBalance(p)
    \/ logDeviceUsage_updateBalance(p)
    \/ IoT_logDeviceUsage_createLog(p) /\ proc'[p].pc = "idle"
    \/ IoT_logDeviceUsage_updateBalance(p)

\* any step of usage report p after its first read
UsageStep(p) ==
    \/ logDeviceUsage_createBalance(p)
    \/ logDeviceUsage_updateBalance(p)
    \/ IoT_logDeviceUsage_createLog(p)
    \/ IoT_logDeviceUsage_updateBalance(p)

(* ---- C1 ---- *)

\* C1: when no request is in flight, the balance of every device is its
\* initial balance (0) plus the credited token amounts minus the accepted
\* usage debits: no delta is lost.  Stated for runs that used only
\* tokenService.validateToken and usageService.logDeviceUsage and in which no
\* token was redeemed twice.
C1_NoLostUpdate ==
    (Quiescent /\ ~iotUsed /\ \A tid \in TokenIds : redeemed[tid] <= 1)
        => \A d \in DeviceIds : BalanceOf(d) = Credited(d) - debited[d]

(* ---- C2 ---- *)

\* C2: no token is redeemed successfully more than once, whichever entry
\* point the redemptions use and however they interleave.
C2_RedeemedAtMostOnce ==
    \A tid \in TokenIds : redeemed[tid] <= 1

(* ---- C3 ---- *)

\* C3: once every request has ended (completed, failed or died between two
\* sub-steps), a token is marked used if and only if its amount was credited.
C3_UsedIffCredited ==
    Quiescent =>
        \A tid \in TokenIds :
            tokens[tid].exists =>
                ((tokens[tid].status = TOKEN_STATUS.USED) <=> (redeemed[tid] >= 1))

(* ---- C4 ---- *)

\* C4: the step in which a usage report for a device with a Balance row is
\* answered leaves the balance >= 0, and when the reported amount exceeds the
\* balance stored at that moment the report is rejected as insufficient and
\* the balance is left as it was.
C4_DebitWithinBalance ==
    [][\A p \in Procs :
          (UsageAnswer(p) /\ balances[proc[p].dev].exists) =>
              /\ BalanceIn(balances', proc[p].dev) >= 0
              /\ proc[p].amt > BalanceOf(proc[p].dev) =>
                    /\ BalanceIn(balances', proc[p].dev) = BalanceOf(proc[p].dev)
                    /\ response'.result = "InsufficientBalance"]_vars

(* ---- C5 ---- *)

\* C5: a usage report that reads a Balance row below its usageAmount writes no
\* UsageLog row, leaves the balance as it was, and is answered with
\* canUse = false and remainingBalance = the balance it read, not an error.
C5_InsufficientWritesNothing ==
    [][\A p \in Procs :
          /\ \A k \in RequestKeys, u \in UsageAmounts :
                (/\ logDeviceUsage(p, k, Number(u))
                 /\ u > 0
                 /\ FindDeviceByKey(k) # NoDevice
                 /\ devices[FindDeviceByKey(k)].status
                 /\ balances[FindDeviceByKey(k)].exists
                 /\ balances[FindDeviceByKey(k)].balance < u)
                    => /\ response' = Insufficient("logDeviceUsage",
                                          balances[FindDeviceByKey(k)].balance)
                       /\ UNCHANGED <<usageLogs, balances>>
          /\ (UsageStep(p) /\ proc[p].bal.exists /\ ReadBalance(p) < proc[p].amt)
                => /\ usageLogs' = usageLogs
                   /\ BalanceIn(balances', proc[p].dev) = BalanceOf(proc[p].dev)
                   /\ proc'[p].pc = "idle"
                   /\ response'.result = "InsufficientBalance"
                   /\ response'.canUse = FALSE
                   /\ response'.balance = ReadBalance(p)]_vars

(* ---- C6 ---- *)

\* C6: every step adds to the UsageLog rows of a device exactly the amount
\* that the step takes off the device's balance on behalf of a usage report,
\* so the rows always sum to the total that usage subtracted.
C6_LogMatchesDebit ==
    [][\A d \in DeviceIds :
          LogSum(d, usageLogs') - LogSum(d, usageLogs)
            = (IF \E p \in Procs : UsageStep(p) /\ proc[p].dev = d
               THEN BalanceOf(d) - BalanceIn(balances', d)
               ELSE 0)]_vars

(* ---- C7 ---- *)

\* the owning device of the token with this token string, when it exists
TokenKnown(tokenValue) == FindTokenByValue(tokenValue) # 0

OwnerOf(tokenValue) == tokens[FindTokenByValue(tokenValue)].deviceId

TokenUnused(tokenValue) ==
    tokens[FindTokenByValue(tokenValue)].status = TOKEN_STATUS.UNUSED

WrongKey(tokenValue, deviceKey) ==
    /\ TokenKnown(tokenValue)
    /\ devices[OwnerOf(tokenValue)].deviceKey # deviceKey

InactiveOwner(tokenValue) ==
    /\ TokenKnown(tokenValue)
    /\ ~devices[OwnerOf(tokenValue)].status

RedeemFailures == {"InvalidToken", "TokenAlreadyUsed", "DeviceMismatch",
                   "DeviceInactive", "DeviceNotFound", "InvalidOrUsedToken"}

\* C8: every step of a redemption of a token whose owning device is inactive
\* changes no token and no balance, and the redemption ends in a failure
\* without reaching its writes.
C8_InactiveOwnerFails ==
    [][\A p \in Procs :
          /\ \A t \in RequestTokens, k \in RequestKeys :
                InactiveOwner(t) =>
                    /\ validateToken(p, t, k) =>
                          /\ response'.result \in RedeemFailures
                          /\ proc'[p].pc = "idle"
                          /\ UNCHANGED <<tokens, balances, redeemed>>
                    /\ validateDeviceToken(p, k, t) =>
                          /\ \/ response'.result \in RedeemFailures
                             \/ proc'[p].pc = "iv_findToken"
                          /\ UNCHANGED <<tokens, balances, redeemed>>
          /\ (validateDeviceToken_findToken(p) /\ InactiveOwner(proc[p].tok))
                => /\ response'.result \in RedeemFailures
                   /\ proc'[p].pc = "idle"
                   /\ UNCHANGED <<tokens, balances, redeemed>>]_vars

\* a redemption was just refused because the token's device is inactive, and
\* the token is still unused with no used_at
C8_Witness ==
    /\ response = Failure("validateToken", "DeviceInactive")
    /\ \E tid \in TokenIds :
          /\ tokens[tid].exists
          /\ ~devices[tokens[tid].deviceId].status
          /\ tokens[tid].status = "unused"
          /\ tokens[tid].used_at = "null"

(* ---- C9 ---- *)

\* C9: in every step a token that is used stays used (and keeps existing),
\* and a token that the step creates is unused with no used_at.
C9_UnusedToUsedOnly ==
    [][\A tid \in TokenIds :
          /\ (tokens[tid].exists /\ tokens[tid].status = TOKEN_STATUS.USED)
                => (tokens'[tid].exists /\ tokens'[tid].status = TOKEN_STATUS.USED)
          /\ (~tokens[tid].exists /\ tokens'[tid].exists)
                => (/\ tokens'[tid].status = TOKEN_STATUS.UNUSED
                    /\ tokens'[tid].used_at = "null")
          /\ tokens'[tid].exists
                => tokens'[tid].status \in {TOKEN_STATUS.UNUSED, TOKEN_STATUS.USED}]_vars

\* a used token was just presented again and refused
C9_Witness ==
    /\ response.result = "TokenAlreadyUsed"
    /\ \E tid \in TokenIds : tokens[tid].exists /\ tokens[tid].status = "used"

(* ---- C10 ---- *)

\* C10: along the scenario (issue T1 of 50 for D1 at balance 0; redeem T1 with
\* K1; redeem T1 again; log usage 20; log usage 1000, through
\* tokenService.validateToken and usageService.logDeviceUsage, one after the
\* other) the answers and the stored state are those of the scenario.
C10_Scenario ==
    Quiescent =>
        /\ scn = 2 => /\ response = Success("validateToken", 50, 50, FALSE)
                      /\ BalanceOf("D1") = 50
                      /\ tokens[1].status = TOKEN_STATUS.USED
                      /\ tokens[1].used_at = "set"
        /\ scn = 3 => /\ response.result = "TokenAlreadyUsed"
                      /\ BalanceOf("D1") = 50
                      /\ usageLogs = EmptyBag
        /\ scn = 4 => /\ response = Success("logDeviceUsage", 30, 0, TRUE)
                      /\ BalanceOf("D1") = 30
                      /\ usageLogs = SetToBag({UsageLogRow("D1", 20)})
        /\ scn = 5 => /\ response = Insufficient("logDeviceUsage", 30)
                      /\ BalanceOf("D1") = 30
                      /\ usageLogs = SetToBag({UsageLogRow("D1", 20)})

\* the scenario has been run to its end
C10_Witness == scn = 5

(* ---- C11 ---- *)

\* the step in which redemption p writes the balance and answers
RedeemAnswer(p) ==
    \/ validateToken_updateBalance(p)
    \/ validateDeviceToken_updateBalance(p)

\* C11: a redemption of token T with amount a that succeeds, having read the
\* prior balance b of the token's device (0 when it read no Balance row),
\* answers amount = a and balance = b + a, stores b + a as the device's
\* balance and T's token string as its lastToken.
C11_RedemptionCredits ==
    [][\A p \in Procs :
          (RedeemAnswer(p) /\ response'.result = "ok") =>
              LET a == tokens[proc[p].tid].amount
                  b == ReadBalance(p)
                  d == tokens[proc[p].tid].deviceId
              IN  /\ response'.amount = a
                  /\ response'.balance = b + a
                  /\ balances'[d].exists
                  /\ balances'[d].balance = b + a
                  /\ balances'[d].lastToken = tokens[proc[p].tid].token]_vars

\* a redemption on a device whose prior balance was 50 has just succeeded
C11_Witness ==
    /\ response.result = "ok"
    /\ response.op \in {"validateToken", "validateDeviceToken"}
    /\ response.amount = 50
    /\ response.balance = 100
    /\ BalanceOf("D1") = 100

(* ---- C12 ---- *)

\* C12: a balance check with the key of an active device that has no Balance
\* row answers balance = 0 and lastToken = "", and changes no table: no
\* Balance, UsageLog or Token row is created and none is changed.
C12_CheckBalanceReadOnly ==
    [][\A p \in Procs, k \in RequestKeys :
          (/\ checkDeviceBalance(p, k) \/ IoT_checkDeviceBalance(p, k)
           /\ FindDeviceByKey(k) # NoDevice
           /\ devices[FindDeviceByKey(k)].status
           /\ ~balances[FindDeviceByKey(k)].exists)
              => /\ response'.result = "ok"
                 /\ response'.balance = 0
                 /\ response'.lastToken = ""
                 /\ UNCHANGED <<devices, tokens, balances, usageLogs>>]_vars

\* the balance of an active device without a Balance row was just checked
C12_Witness ==
    /\ response.op \in {"checkDeviceBalance", "IoT_checkDeviceBalance"}
    /\ response = BalanceInfo(response.op, 0, "")
    /\ ~balances["D1"].exists
    /\ devices["D1"].status

(* ---- C13 ---- *)

\* C13: issuing a token with amount <= 0 is answered with a validation
\* failure (400) and leaves the tokens table as it was, and after every step
\* every Token row has amount > 0.
C13_NonPositiveAmountRejected ==
    [][/\ \A d \in DeviceIds, a \in TokenAmounts :
             (createToken(Issuer, RoleOf(Issuer), d, a) /\ a <= 0)
                 => /\ response'.result = "ValidationFailed"
                    /\ response'.code = STATUS_CODES.BAD_REQUEST
                    /\ tokens' = tokens
       /\ \A tid \in TokenIds : tokens'[tid].exists => tokens'[tid].amount > 0]_vars

\* an issue with a non-positive amount was just refused, next to a token
\* that was issued
C13_Witness ==
    /\ response = Failure("createToken", "ValidationFailed")
    /\ \E tid \in TokenIds : tokens[tid].exists

(* ---- C14 ---- *)

\* request p is the only one in flight
Alone(p) == \A q \in Procs \ {p} : proc[q].pc = "idle"

\* usageService.logDeviceUsage, called in the current state with this
\* request, goes on to debit the balance and write the UsageLog row
ServiceAcceptsUsage(deviceKey, usageAmount) ==
    \E q \in Procs :
        ENABLED (/\ logDeviceUsage(q, deviceKey, Number(usageAmount))
                 /\ proc'[q].pc = "lu_updateBalance")

\* tokenService.validateToken, called in the current state with this
\* request, goes on to mark the token used and credit the balance
ServiceAcceptsToken(deviceKey, tokenValue) ==
    \E q \in Procs :
        ENABLED (/\ validateToken(q, tokenValue, deviceKey)
                 /\ proc'[q].pc = "vt_updateBalance")

\* C14: at each step in which an IoT controller handler, running alone,
\* decides to accept or to reject its request (a usage report for a device
\* that has its Balance row, a redemption), the service-layer operation
\* called in the same state with the same request decides the same way.
C14_SameRulesOnEveryEntryPoint ==
    [][\A p \in Procs :
          /\ \A k \in RequestKeys, u \in UsageAmounts :
                (/\ Quiescent /\ requests < MaxRequests
                 /\ FindDeviceByKey(k) # NoDevice => balances[FindDeviceByKey(k)].exists
                 /\ IoT_logDeviceUsage(p, k, Number(u)))
                    => ((proc'[p].pc = "iu_createLog") <=> ServiceAcceptsUsage(k, u))
          /\ \A k \in RequestKeys, t \in RequestTokens :
                (Quiescent /\ validateDeviceToken(p, k, t) /\ proc'[p].pc = "idle")
                    => ~ServiceAcceptsToken(k, t)
          /\ (Alone(p) /\ requests < MaxRequests /\ validateDeviceToken_findToken(p))
                => ((proc'[p].pc = "iv_updateToken")
                      <=> ServiceAcceptsToken(proc[p].key, proc[p].tok))]_vars

(* ---- C18 ---- *)

\* the usage report names no device or an inactive one, or carries no
\* usageAmount, one that is no number, or one <= 0
BadUsageReport(deviceKey, body) ==
    \/ FindDeviceByKey(deviceKey) = NoDevice
    \/ ~devices[FindDeviceByKey(deviceKey)].status
    \/ body.type # "number"
    \/ body.value <= 0

ReasonNames(result) ==
    CASE result = "InvalidToken"       -> {"unknown token"}
      [] result = "TokenAlreadyUsed"   -> {"used token"}
      [] result = "DeviceMismatch"     -> {"other device's key"}
      [] result = "DeviceInactive"     -> {"inactive device"}
      [] result = "DeviceNotFound"     -> {"unknown device key"}
      [] result = "InvalidOrUsedToken" -> {"unknown token", "used token"}
      [] OTHER                         -> {}

\* the failures that hold of a redemption request in the current state
HoldingFailures(tokenValue, deviceKey) ==
    LET tid == FindTokenByValue(tokenValue)
        dev == FindDeviceByKey(deviceKey)
    IN  (IF tid = 0 THEN {"unknown token"} ELSE {})
        \cup (IF tid # 0 /\ tokens[tid].status = TOKEN_STATUS.USED
              THEN {"used token"} ELSE {})
        \cup (IF tid # 0 /\ devices[tokens[tid].deviceId].deviceKey # deviceKey
              THEN {"other device's key"} ELSE {})
        \cup (IF \/ tid # 0 /\ ~devices[tokens[tid].deviceId].status
                 \/ dev # NoDevice /\ ~devices[dev].status
              THEN {"inactive device"} ELSE {})
        \cup (IF dev = NoDevice THEN {"unknown device key"} ELSE {})

\* the answer names exactly one failure, one that holds of the request, as a 4xx
SpecificReason(answer, tokenValue, deviceKey) ==
    /\ answer.code \in 400..499
    /\ \E c \in HoldingFailures(tokenValue, deviceKey) :
          ReasonNames(answer.result) = {c}

\* C17: every redemption that is refused by a check, on tokenService
\* .validateToken as on the IoT validateDeviceToken, is answered with a 4xx
\* whose reason names one failure only (unknown token, used token, other
\* device's key, inactive device), a failure that holds of the request.
C17_SpecificFailureReasons ==
    [][\A p \in Procs :
          /\ \A t \in RequestTokens, k \in RequestKeys :
                /\ (validateToken(p, t, k) /\ response'.result # "none")
                      => SpecificReason(response', t, k)
                /\ (validateDeviceToken(p, k, t) /\ response'.result # "none")
                      => SpecificReason(response', t, k)
          /\ (validateDeviceToken_findToken(p) /\ response'.result # "none")
                => SpecificReason(response', proc[p].tok, proc[p].key)]_vars

(* ---- C19 ---- *)

\* the rows of device e in the three tables are the same before and after
RowsUnchanged(e) ==
    /\ balances'[e] = balances[e]
    /\ \A tid \in TokenIds :
          (tokens[tid].exists /\ tokens[tid].deviceId = e) => tokens'[tid] = tokens[tid]
    /\ \A tid \in TokenIds :
          (tokens'[tid].exists /\ tokens'[tid].deviceId = e) => tokens'[tid] = tokens[tid]
    /\ \A u \in UsageAmounts :
          CopiesIn(UsageLogRow(e, u), usageLogs') = CopiesIn(UsageLogRow(e, u), usageLogs)

\* a step of request p after its first read
RequestStep(p) ==
    \/ validateToken_updateBalance(p)
    \/ logDeviceUsage_createBalance(p)
    \/ logDeviceUsage_updateBalance(p)
    \/ IoT_logDeviceUsage_createLog(p)
    \/ IoT_logDeviceUsage_updateBalance(p)
    \/ validateDeviceToken_findToken(p)
    \/ validateDeviceToken_updateToken(p)
    \/ validateDeviceToken_updateBalance(p)

\* the devices request p is addressed to: the one that has the device key of
\* the request and, for tokenService.validateToken, the one that owns the token
Addressed(p) ==
    {d \in DeviceIds : devices[d].exists /\ devices[d].deviceKey = proc[p].key}
    \cup (IF proc[p].pc = "vt_updateBalance"
          THEN {tokens[FindTokenByValue(proc[p].tok)].deviceId} ELSE {})

ResponseTopic(topic) ==
    [i \in 1..Len(topic) |->
        IF i = Len(topic) /\ topic[i] = "request" THEN "response" ELSE topic[i]]

\* the handling of the message that handler h received on the topic ends in
\* this step
HandlingEnds(h, topic) ==
    \/ /\ handleMessage(h, topic, "json")
       /\ handlers'[h].pc = "idle"
    \/ /\ handlers[h].pc # "idle"
       /\ handlers[h].topic = topic
       /\ handlers'[h].pc = "idle"
       /\ \E queryFails \in BOOLEAN :
             \/ handleDeviceAuth_findDevice(h, queryFails)
             \/ handleDeviceAuth_updateDevice(h, queryFails)

\* C15: when the connected service ends the handling of a well-formed
\* message received on an auth, balance-check, usage-log or token-validate
\* request topic, it has published a response on the response topic of that
\* operation and device.
C15_EveryRequestAnswered ==
    [][\A h \in 1..NumHandlers, topic \in InboundTopics :
          (/\ topic[Len(topic)] = "request"
           /\ isConnected
           /\ HandlingEnds(h, topic))
              => /\ Len(published') = Len(published) + 1
                 /\ published'[Len(published')].topic = ResponseTopic(topic)]_vars

(* ---- C16 ---- *)

\* handling the message fails before the first await: JSON.parse throws, or
\* the method the topic routes to throws
FailsAtOnce(topic, payload) ==
    payload = "garbage" \/ RouteOf(topic) # "handleDeviceAuth"

\* C16: no handleMessage promise is ever rejected; a step in which handling a
\* message fails (unparseable JSON, a handler that throws, a storage error)
\* adds one entry to the error log, frees the handler, and leaves the
\* connection and the other messages being handled as they were, so that
\* later messages are received and handled as before.
C16_FailuresIsolated ==
    [][/\ rejected' = 0
       /\ \A h \in 1..NumHandlers :
             /\ \A topic \in InboundTopics, payload \in Payloads :
                   (handleMessage(h, topic, payload) /\ FailsAtOnce(topic, payload))
                       => /\ errorLog' = errorLog + 1
                          /\ handlers' = handlers
                          /\ isConnected' = isConnected
             /\ (handleDeviceAuth_findDevice(h, TRUE) \/ handleDeviceAuth_updateDevice(h, TRUE))
                   => /\ errorLog' = errorLog + 1
                      /\ handlers' = [handlers EXCEPT ![h] = IdleHandler]
                      /\ isConnected' = isConnected]_vars

\* two messages failed, and one was received and answered
C16_Witness ==
    /\ errorLog = 2
    /\ received = 3
    /\ rejected = 0
    /\ Len(published) = 1
    /\ published[1] = [topic |-> AuthResponseTopic("K1"), success |-> TRUE]

(* ---- C21 ---- *)

C22_DeleteRemovesDependents ==
    [][\A a \in 1..NumAdmins :
          (deleteDevice_delete(a) /\ devices[admin[a].dev].exists) =>
              /\ response' = Done("deleteDevice")
              /\ ~devices'[admin[a].dev].exists
              /\ \A tid \in TokenIds :
                    tokens'[tid].exists => tokens'[tid].deviceId # admin[a].dev
              /\ \A r \in BagToSet(usageLogs') : r.deviceId # admin[a].dev]_vars

(* ---- C25 ---- *)

\* C25: no two devices have the same deviceKey.
C25_DeviceKeysUnique ==
    \A d \in DeviceIds, e \in DeviceIds :
        (devices[d].exists /\ devices[e].exists /\ devices[d].deviceKey = devices[e].deviceKey)
            => d = e

(* ---- C26 ---- *)

C23_BalanceNeverNegative ==
    \A d \in DeviceIds : BalanceOf(d) >= 0

(* ---- C24 ---- *)

\* C24: when one operator update and one redemption or usage report have
\* run, in any interleaving, and no request is in flight, the balance of
\* every device is the operator amounts applied to it plus the token amounts
\* credited to it minus the debits accepted for it (the balances start at 0).
C24_OperatorUpdateNotLost ==
    (Quiescent /\ requests <= 1 /\ adjustments <= 1) =>
        \A d \in DeviceIds : BalanceOf(d) = adjusted[d] + Credited(d) - debited[d]

(* ---- C27 ---- *)

\* C27: retryCount is always between 0 and maxRetries; a connection close
\* sets at most one reconnect timer, and sets one only when retryCount is
\* below maxRetries, in which case it counts the retry; nothing but a close
\* sets such a timer; and every 'connect' event resets retryCount to 0.
C27_RetryCountBounded ==
    [][/\ retryCount \in 0..maxRetries
       /\ retryCount' \in 0..maxRetries
       /\ \A c \in ClientIds :
             client_close(c) =>
                 IF retryCount < maxRetries
                 THEN timers' = timers + 1 /\ retryCount' = retryCount + 1
                 ELSE timers' = timers /\ retryCount' = retryCount
       /\ timers' > timers => \E c \in ClientIds : client_close(c)
       /\ \A c \in ClientIds : client_connect(c) => retryCount' = 0]_vars

\* five closes in a row have used up the retries, a sixth one was only
\* logged, and the five timers are pending
C27_Witness ==
    /\ retryCount = maxRetries
    /\ timers = maxRetries
    /\ errorLog = 1
    /\ connects = 0

(* ---- C28 ---- *)

\* C28: at no time are two clients with registered handlers open, that is,
\* trying to connect or connected, so that a message the broker delivers is
\* handled by one 'message' handler only.
C28_OneLiveClient ==
    Cardinality({c \in ClientIds : clients[c] \in {"connecting", "connected"}}) <= 1

(* ---- C29 ---- *)

\* C29: once disconnect() has ended the connection of the connected service,
\* and as long as no caller has called connect() again, isConnected is false
\* and no step makes a new client.
C29_StaysDisconnected ==
    [][stopped' =>
          /\ isConnected' = FALSE
          /\ stopped => \A c \in ClientIds :
                            clients[c] = "none" => clients'[c] = "none"]_vars

(* ---- C30 ---- *)

\* C30: while isConnected is false, publish returns false and a step that
\* calls it hands no message to the client, and subscribe hands no topic to
\* the client and records none; subscribers grows only in the callback of a
\* subscription that the broker answered without error, and by the topic of
\* that subscription.
C30_NothingSentWhileDisconnected ==
    [][/\ ~isConnected =>
             /\ publish_returns(isConnected) = FALSE
             /\ subscribeToDeviceTopics(isConnected, subscribing) = subscribing
             /\ \A h \in 1..NumHandlers, queryFails \in BOOLEAN :
                   (\/ handleDeviceAuth_findDevice(h, queryFails)
                    \/ handleDeviceAuth_updateDevice(h, queryFails))
                       => /\ published' = published
                          /\ subscribing' = subscribing
                          /\ subscribers' = subscribers
       /\ client_suback(TRUE) => subscribers' = subscribers
       /\ subscribers' # subscribers
             => /\ client_suback(FALSE)
                /\ subscribers' = subscribers \cup {Head(subscribing)}]_vars

\* an auth request was handled to its end after the connection was lost, and
\* its response was not sent; of the five subscriptions the broker refused one
C30_Witness ==
    /\ ~isConnected
    /\ received = 1
    /\ \A h \in 1..NumHandlers : handlers[h] = IdleHandler
    /\ published = <<>>
    /\ subscribing = <<>>
    /\ Cardinality(subscribers) = Len(DeviceTopics) - 1
    /\ errorLog = 1

====
